---- MODULE Spec2Model ----
(***************************************************************************)
(* Model of scan-npm-vulnerable-actions (src/main.go): the sequential      *)
(* pipeline scanRepositories -> analyzeActions -> printResults over the    *)
(* usage mapping usesRepos, with the GitHub API, the YAML/JSON decoders    *)
(* and the run-time type assertions as nondeterministic environment        *)
(* responses.                                                              *)
(*                                                                         *)
(* Go strings are sequences of one-character strings, so that Split,       *)
(* TrimPrefix, Contains, HasSuffix and string equality are computed on     *)
(* the characters, as the code computes them.                              *)
(***************************************************************************)
EXTENDS Integers, Sequences, FiniteSets, TLC

VARIABLES
    pc,               \* position of main: "list", "page", "analyze", "report", "done";
                      \* "fatal" after log.Fatalf, "panic" after a run-time panic;
                      \* "call"/"return" in the single-function specifications
    pages,            \* the organisation's repositories, as the listing API pages them
    maxRepos,         \* const maxRepos (main.go:17), the operator-configured cap
    infectedPackages, \* the package-level registry isInfectedPackage ranges over
    usesRepos,        \* map[string]*ActionInfo
    repoCount,        \* scanRepositories' repoCount
    pageNo,           \* opt.Page, as an index into pages
    idx,              \* position of the range loop in the current page
    processed,        \* the processRepository calls, in order: the repository and what
                      \* the listing of its workflow directory answered
    listLog,          \* repoCount at each Repositories.ListByOrg call
    logged,           \* log.Printf lines: <<kind, repository>>
    calls,            \* GetContents calls of the analyzer: the entry analysed, the
                      \* owner, repo and path asked for, and the answer
    todo,             \* keys analyzeActions' range loop has not visited yet
    printed,          \* what printResults has written
    input,            \* arguments of the function under a single-function specification
    output            \* its result

vars == <<pc, pages, maxRepos, infectedPackages, usesRepos, repoCount, pageNo, idx,
          processed, listLog, logged, calls, todo, printed, input, output>>

(***************************************************************************)
(* Bounds of the model.                                                    *)
(***************************************************************************)
NumRepos == 2
MaxPerPage == 2
MaxCap == 2
MaxSteps == 2
MaxPkgs == 2
MaxPieces == 4
MaxRefs == 2

(***************************************************************************)
(* Go's strings package, on sequences of characters.                       *)
(***************************************************************************)
HasPrefix(s, prefix) ==
    /\ Len(s) >= Len(prefix)
    /\ SubSeq(s, 1, Len(prefix)) = prefix

HasSuffix(s, suffix) ==
    /\ Len(s) >= Len(suffix)
    /\ SubSeq(s, Len(s) - Len(suffix) + 1, Len(s)) = suffix

TrimPrefix(s, prefix) ==
    IF HasPrefix(s, prefix) THEN SubSeq(s, Len(prefix) + 1, Len(s)) ELSE s

\* strings.Index, 1-based; 0 when sep does not occur in s.
Index(s, sep) ==
    LET at == {i \in 1..(Len(s) - Len(sep) + 1) : SubSeq(s, i, i + Len(sep) - 1) = sep}
    IN  IF at = {} THEN 0 ELSE CHOOSE i \in at : \A j \in at : i <= j

Contains(s, sep) == Index(s, sep) # 0

\* strings.Split for a non-empty sep: cut at the first occurrence, go on after it.
RECURSIVE Split(_, _)
Split(s, sep) ==
    LET i == Index(s, sep)
    IN  IF i = 0 THEN <<s>>
        ELSE <<SubSeq(s, 1, i - 1)>> \o Split(SubSeq(s, i + Len(sep), Len(s)), sep)

(***************************************************************************)
(* String literals of the source.                                          *)
(***************************************************************************)
At == <<"@">>
Slash == <<"/">>
NodeModules == <<"n", "o", "d", "e", "_", "m", "o", "d", "u", "l", "e", "s">>
NodeModulesPrefix == NodeModules \o Slash
NodeModulesSep == Slash \o NodeModules \o Slash
YmlSuffix == <<".", "y", "m", "l">>
YamlSuffix == <<".", "y", "a", "m", "l">>

(***************************************************************************)
(* interface{} values of a decoded YAML or JSON document. A type assertion *)
(* v.(string), v.(map[string]interface{}), v.([]interface{}) succeeds on   *)
(* the matching tag only; a missing key asserts like a nil value.          *)
(***************************************************************************)
Nil == [t |-> "nil"]
Other == [t |-> "other"]
Str(s) == [t |-> "string", v |-> s]
Map(f) == [t |-> "map", m |-> f]
List(s) == [t |-> "seq", s |-> s]

Get(f, key) == IF key \in DOMAIN f THEN f[key] ELSE Nil
IsString(v) == v.t = "string"
IsMap(v) == v.t = "map"
IsList(v) == v.t = "seq"

EmptyMap == [k \in {} |-> Nil]

\* &ActionInfo{Repos: make(map[string]struct{}), Analyzed: false}
NewActionInfo ==
    [Repos |-> {}, UsesNpm |-> FALSE, IsInfected |-> FALSE,
     InfectedPackages |-> <<>>, Analyzed |-> FALSE]

(***************************************************************************)
(* Workflow Scanner: extraction of `uses` references.                      *)
(***************************************************************************)
addActionUsage(actionUse, repoName, m) ==
    LET info == IF actionUse \in DOMAIN m THEN m[actionUse] ELSE NewActionInfo
    IN  [k \in DOMAIN m \cup {actionUse} |->
            IF k = actionUse
            THEN [info EXCEPT !.Repos = @ \cup {repoName}]
            ELSE m[k]]

\* The loop over the steps with `return` for `continue` at a step that is no mapping.
RECURSIVE StepsLoop_Return(_, _, _)
StepsLoop_Return(steps, repoName, m) ==
    IF steps = <<>> THEN m
    ELSE LET step == Head(steps)
             uses == IF IsMap(step) THEN Get(step.m, "uses") ELSE Nil
         IN  IF ~IsMap(step) THEN m
             ELSE StepsLoop_Return(Tail(steps), repoName,
                                   IF IsString(uses)
                                   THEN addActionUsage(uses.v, repoName, m)
                                   ELSE m)

RECURSIVE StepsLoop(_, _, _)
StepsLoop(steps, repoName, m) ==
    IF steps = <<>> THEN m
    ELSE LET step == Head(steps)
             uses == IF IsMap(step) THEN Get(step.m, "uses") ELSE Nil
         IN  StepsLoop(Tail(steps), repoName,
                       IF IsMap(step) /\ IsString(uses)
                       THEN addActionUsage(uses.v, repoName, m)
                       ELSE m)

processJobSteps(job, repoName, m) ==
    IF ~IsMap(job) THEN m
    ELSE LET steps == Get(job.m, "steps")
         IN  IF ~IsList(steps) THEN m
             ELSE StepsLoop(steps.s, repoName, m)

\* The range over jobs: Go visits the keys in no fixed order; the helper
\* takes them in some order (the result does not depend on it: addActionUsage
\* only adds keys and set members).
RECURSIVE JobsLoop(_, _, _, _)
JobsLoop(jobs, ids, repoName, m) ==
    IF ids = {} THEN m
    ELSE LET id == CHOOSE j \in ids : TRUE
         IN  JobsLoop(jobs, ids \ {id}, repoName,
                      processJobSteps(jobs[id], repoName, m))

\* workflowContent is the outcome of yaml.Unmarshal into map[string]interface{}:
\* [yaml |-> "error"] or [yaml |-> "ok", root |-> the top-level mapping].
\* The result is <<the mapping, whether the unmarshal error was logged>>.
extractActionsFromWorkflow(workflowContent, repoName, m) ==
    IF workflowContent.yaml = "error" THEN <<m, TRUE>>
    ELSE LET jobs == Get(workflowContent.root, "jobs")
         IN  IF ~IsMap(jobs) THEN <<m, FALSE>>
             ELSE <<JobsLoop(jobs.m, DOMAIN jobs.m, repoName, m), FALSE>>

(***************************************************************************)
(* Dependency Analyzer: pure parts.                                        *)
(***************************************************************************)
\* parseActionReference cutting at the first "/" only (strings.SplitN(.., 2)).
parseActionReference_SplitN(actionUse) ==
    LET base == Split(actionUse, At)[1]
        i == Index(base, Slash)
    IN  IF i = 0 THEN [owner |-> <<>>, repo |-> <<>>]
        ELSE [owner |-> SubSeq(base, 1, i - 1), repo |-> SubSeq(base, i + 1, Len(base))]

parseActionReference(actionUse) ==
    LET parts == Split(Split(actionUse, At)[1], Slash)
    IN  IF Len(parts) < 2 THEN [owner |-> <<>>, repo |-> <<>>]
        ELSE [owner |-> parts[1], repo |-> parts[2]]

\* extractPackageName taking the first nested part instead of the last.
extractPackageName_FirstPart(pkgPath) ==
    LET pkgName == TrimPrefix(pkgPath, NodeModulesPrefix)
        parts == Split(pkgName, NodeModulesSep)
    IN  IF /\ HasPrefix(pkgName, At)
           /\ Contains(pkgName, Slash)
           /\ ~Contains(pkgName, NodeModulesSep)
        THEN pkgName
        ELSE IF Len(parts) > 1 THEN parts[2] ELSE pkgName

extractPackageName(pkgPath) ==
    LET pkgName == TrimPrefix(pkgPath, NodeModulesPrefix)
        parts == Split(pkgName, NodeModulesSep)
    IN  IF /\ HasPrefix(pkgName, At)
           /\ Contains(pkgName, Slash)
           /\ ~Contains(pkgName, NodeModulesSep)
        THEN pkgName
        ELSE IF Len(parts) > 1 THEN parts[Len(parts)] ELSE pkgName

\* isInfectedPackage comparing the package names only (strings.HasPrefix on name@).
isInfectedPackage_NameOnly(fullPkg, registry) ==
    \E infectedPkg \in registry :
        Split(fullPkg, At)[1] = Split(infectedPkg, At)[1]

isInfectedPackage(fullPkg, registry) ==
    \E infectedPkg \in registry : fullPkg = infectedPkg

\* The loop of checkPackagesForInfection over the paths in iteration order `order`.
RECURSIVE PackagesLoop(_, _, _, _)
PackagesLoop(packages, order, registry, foundInfected) ==
    IF order = <<>> THEN foundInfected
    ELSE LET pkgPath == Head(order)
             pkgInfo == packages[pkgPath]
             version == IF IsMap(pkgInfo) THEN Get(pkgInfo.m, "version") ELSE Nil
             fullPkg == extractPackageName(pkgPath) \o At \o version.v
         IN  PackagesLoop(packages, Tail(order), registry,
                 IF /\ pkgPath # <<>>
                    /\ IsMap(pkgInfo)
                    /\ IsString(version)
                    /\ isInfectedPackage(fullPkg, registry)
                 THEN Append(foundInfected, fullPkg)
                 ELSE foundInfected)

\* checkPackagesForInfection without its len(foundInfected) > 0 guard.
checkPackagesForInfection_NoGuard(lockJSON, info, order, registry) ==
    LET packages == Get(lockJSON, "packages")
    IN  IF ~IsMap(packages) THEN info
        ELSE [info EXCEPT !.IsInfected = TRUE,
                          !.InfectedPackages =
                              PackagesLoop(packages.m, order, registry, <<>>)]

\* lockJSON is the decoded top-level object; order is the order in which the
\* range loop visits the keys of `packages` (any order, in Go).
checkPackagesForInfection(lockJSON, info, order, registry) ==
    LET packages == Get(lockJSON, "packages")
    IN  IF ~IsMap(packages) THEN info
        ELSE LET foundInfected == PackagesLoop(packages.m, order, registry, <<>>)
             IN  IF Len(foundInfected) > 0
                 THEN [info EXCEPT !.IsInfected = TRUE,
                                   !.InfectedPackages = foundInfected]
                 ELSE info

\* The orders a range loop may visit the key set S in.
Orders(S) ==
    {o \in [1..Cardinality(S) -> S] : \A i, j \in 1..Cardinality(S) : i # j => o[i] # o[j]}

KeyOrders(lockJSON) ==
    LET packages == Get(lockJSON, "packages")
    IN  IF IsMap(packages) THEN Orders(DOMAIN packages.m) ELSE {<<>>}

(***************************************************************************)
(* The environment of the pipeline: the organisation, the directory        *)
(* listings and files the contents API answers with.                       *)
(***************************************************************************)
Repo(i) == <<"repo", i>>

Run(a, b) == [i \in 1..(b - a + 1) |-> Repo(a + i - 1)]

Min(a, b) == IF a <= b THEN a ELSE b

\* The ways the listing API may page repositories from..n.
RECURSIVE Layouts(_, _)
Layouts(from, n) ==
    IF from > n THEN {<<>>}
    ELSE UNION {{<<Run(from, from + l - 1)>> \o rest : rest \in Layouts(from + l, n)} :
                    l \in 1..Min(MaxPerPage, n - from + 1)}

\* An organisation of 0..NumRepos repositories; an empty one answers one empty page.
PageLayouts == {<<<<>>>>} \cup UNION {Layouts(1, n) : n \in 1..NumRepos}

RECURSIVE Flatten(_)
Flatten(ps) == IF ps = <<>> THEN <<>> ELSE Head(ps) \o Flatten(Tail(ps))

\* resp.NextPage of the listing of page p: 0 on the last page.
NextPage(p) == IF p < Len(pages) THEN p + 1 ELSE 0

\* Action references found in workflows.
RefPlain == <<"a", "/", "b", "@", "1">>
RefSubPath == <<"a", "/", "b", "/", "c", "@", "1">>
RefNoSlash == <<"x">>

Uses(ref) == Map("uses" :> Str(ref))
RunStep == Map("run" :> Str(<<"m">>))
Job(steps) == Map("steps" :> List(steps))
Workflow(jobs) == [yaml |-> "ok", root |-> ("on" :> Other @@ "jobs" :> jobs)]
YamlError == [yaml |-> "error"]

NameYml == <<"w">> \o YmlSuffix
NameYaml == <<"w">> \o YamlSuffix
NameNoDot == <<"y", "m", "l">>

\* One entry of a directory listing, with what fetching and decoding it answers.
Entry(type, name, fetch, decode, doc) ==
    [type |-> type, name |-> name, fetch |-> fetch, decode |-> decode, doc |-> doc]

WorkflowFile(name, doc) == Entry("file", name, "ok", "ok", doc)

DocPlain == Workflow(Map("build" :> Job(<<Uses(RefPlain), RunStep>>)))
DocTwoJobs ==
    Workflow(Map("build" :> Job(<<Uses(RefSubPath)>>) @@ "test" :> Job(<<Uses(RefNoSlash)>>)))
DocNoJobs == [yaml |-> "ok", root |-> ("on" :> Other)]
DocBadShapes == Workflow(Map("build" :> Other @@ "test" :> Map("steps" :> Other)))

\* The listings of .github/workflows the repositories answer with.
PipelineDirs ==
    { <<>>,
      <<Entry("dir", NameYml, "ok", "ok", DocPlain), WorkflowFile(NameNoDot, DocPlain)>>,
      <<Entry("file", NameYml, "error", "ok", YamlError), WorkflowFile(NameYaml, DocPlain)>>,
      <<Entry("file", NameYaml, "ok", "error", YamlError), WorkflowFile(NameYml, DocTwoJobs)>>,
      <<WorkflowFile(NameYml, YamlError), WorkflowFile(NameYml, DocNoJobs),
        WorkflowFile(NameYaml, DocPlain)>>,
      <<WorkflowFile(NameYml, DocBadShapes), WorkflowFile(NameYaml, DocPlain),
        WorkflowFile(NameYml, DocTwoJobs)>>,
      <<WorkflowFile(NameYml, DocPlain)>> }

\* Answers of GetContents(".github/workflows"): a *github.ErrorResponse with an
\* HTTP status, an error of another type (transport, rate limit), or the listing.
DirResponses ==
    {[err |-> "ErrorResponse", status |-> st] : st \in {404, 403, 500}}
    \cup {[err |-> "other"]}
    \cup {[err |-> "none", contents |-> c] : c \in PipelineDirs}

(***************************************************************************)
(* Workflow Scanner.                                                       *)
(***************************************************************************)
enableLimit == maxRepos > 0

\* shouldStopScanning with > for >=.
shouldStopScanning_OffByOne(count) == maxRepos > 0 /\ count > maxRepos

shouldStopScanning(count) == enableLimit /\ count >= maxRepos

isWorkflowFile(content) ==
    /\ content.type = "file"
    /\ (HasSuffix(content.name, YmlSuffix) \/ HasSuffix(content.name, YamlSuffix))

\* processWorkflowFile with log.Fatalf for log.Printf on the unmarshal error.
processWorkflowFile_Fatal(content, repoName, st) ==
    IF content.fetch = "error"
    THEN [st EXCEPT !.lg = @ \cup {<<"file", repoName>>}]
    ELSE IF content.decode = "error"
    THEN [st EXCEPT !.lg = @ \cup {<<"decode", repoName>>}]
    ELSE LET r == extractActionsFromWorkflow(content.doc, repoName, st.m)
         IN  [st EXCEPT !.m = r[1],
                        !.lg = IF r[2] THEN @ \cup {<<"yaml", repoName>>} ELSE @,
                        !.panic = r[2]]

\* st is [m |-> the usage mapping, lg |-> the log lines so far, panic |-> whether
\* the process was ended]. Every failure below is a log line and a return, and
\* every type assertion is of the checked form, so the code never sets panic.
processWorkflowFile(content, repoName, st) ==
    IF content.fetch = "error"
    THEN [st EXCEPT !.lg = @ \cup {<<"file", repoName>>}]
    ELSE IF content.decode = "error"
    THEN [st EXCEPT !.lg = @ \cup {<<"decode", repoName>>}]
    ELSE LET r == extractActionsFromWorkflow(content.doc, repoName, st.m)
         IN  [st EXCEPT !.m = r[1],
                        !.lg = IF r[2] THEN @ \cup {<<"yaml", repoName>>} ELSE @]

RECURSIVE ContentsLoop(_, _, _)
ContentsLoop(contents, repoName, st) ==
    IF contents = <<>> \/ st.panic THEN st
    ELSE ContentsLoop(Tail(contents), repoName,
                      IF isWorkflowFile(Head(contents))
                      THEN processWorkflowFile(Head(contents), repoName, st)
                      ELSE st)

\* Whether processRepository logs the failure of the directory listing.
LogsDirError(dir) == ~(dir.err = "ErrorResponse")

processRepository(dir, repoName, st) ==
    IF dir.err # "none"
    THEN IF LogsDirError(dir)
         THEN [st EXCEPT !.lg = @ \cup {<<"dir", repoName>>}]
         ELSE st
    ELSE ContentsLoop(dir.contents, repoName, st)

(***************************************************************************)
(* The environment of the analyzer: what the action repositories hold.     *)
(***************************************************************************)
PkgA1 == <<"a", "@", "1">>
PkgB2 == <<"b", "@", "2">>
PathA == NodeModulesPrefix \o <<"a">>
PathB == NodeModulesPrefix \o <<"b">>
PathCB == NodeModulesPrefix \o <<"c">> \o NodeModulesSep \o <<"b">>
Version(v) == Map("version" :> Str(v))

PipelineRegistries == {{PkgA1, PkgB2}}

\* Decoded package-lock.json documents.
PipelineLocks ==
    { "name" :> Str(<<"x">>),
      "packages" :> Other,
      "packages" :> Map(<<>> :> Version(<<"1">>) @@ PathA :> Version(<<"2">>)),
      "packages" :> Map(PathA :> Version(<<"1">>) @@ PathCB :> Version(<<"2">>)) }

\* Answers to the fetch of package-lock.json: the fetch, GetContent, json.Unmarshal.
LockAnswers(locks) ==
    { [fetch |-> "error"],
      [fetch |-> "ok", decode |-> "error"],
      [fetch |-> "ok", decode |-> "ok", json |-> "error"] }
    \cup {[fetch |-> "ok", decode |-> "ok", json |-> "ok", root |-> l] : l \in locks}

AnswerOrders(lockResp) ==
    IF lockResp.fetch = "ok" /\ lockResp.decode = "ok" /\ lockResp.json = "ok"
    THEN KeyOrders(lockResp.root)
    ELSE {<<>>}

\* What one action repository answers while its entry is analysed: the answer for
\* package-lock.json, the answer for package.json when the fallback asks for it
\* ("ok" or "error"), and the order the range loop visits the lockfile's paths in.
ActionAnswers(locks) ==
    {[lock |-> [fetch |-> "error"], pkg |-> p, order |-> <<>>] : p \in {"ok", "error"}}
    \cup UNION {{[lock |-> l, pkg |-> "unasked", order |-> o] : o \in AnswerOrders(l)} :
                   l \in LockAnswers(locks) \ {[fetch |-> "error"]}}

\* The record of one processRepository call.
Processed(repoName, dir) ==
    [repo |-> repoName, err |-> dir.err,
     status |-> IF dir.err = "ErrorResponse" THEN dir.status ELSE 0]

Init ==
    /\ pc = "list"
    /\ pages \in PageLayouts
    /\ maxRepos \in 0..MaxCap
    /\ infectedPackages \in PipelineRegistries
    /\ usesRepos = EmptyMap
    /\ repoCount = 0
    /\ pageNo = 1
    /\ idx = 1
    /\ processed = <<>>
    /\ listLog = <<>>
    /\ logged = {}
    /\ calls = {}
    /\ todo = {}
    /\ printed = {}
    /\ input = "none"
    /\ output = "none"

\* client.Repositories.ListByOrg succeeds and the range loop starts on its page.
ListRepos ==
    /\ pc = "list"
    /\ listLog' = Append(listLog, repoCount)
    /\ idx' = 1
    /\ pc' = "page"
    /\ UNCHANGED <<pages, maxRepos, infectedPackages, usesRepos, repoCount, pageNo,
                   processed, logged, calls, todo, printed, input, output>>

\* client.Repositories.ListByOrg fails: log.Fatalf ends the process.
ListReposFails ==
    /\ pc = "list"
    /\ listLog' = Append(listLog, repoCount)
    /\ pc' = "fatal"
    /\ UNCHANGED <<pages, maxRepos, infectedPackages, usesRepos, repoCount, pageNo, idx,
                   processed, logged, calls, todo, printed, input, output>>

\* scanRepositories returns usesRepos and main calls analyzeActions.
StartAnalysis ==
    /\ pc' = "analyze"
    /\ todo' = DOMAIN usesRepos

\* One iteration of the range loop over the page, at a repository: the cap
\* check, and processRepository with everything it calls.
ScanRepo ==
    /\ pc = "page"
    /\ idx <= Len(pages[pageNo])
    /\ IF shouldStopScanning(repoCount)
       THEN /\ StartAnalysis
            /\ UNCHANGED <<usesRepos, repoCount, idx, processed, logged>>
       ELSE \E dir \in DirResponses :
              LET repoName == pages[pageNo][idx]
                  st == processRepository(dir, repoName,
                                          [m |-> usesRepos, lg |-> logged, panic |-> FALSE])
              IN  /\ repoCount' = repoCount + 1
                  /\ processed' = Append(processed, Processed(repoName, dir))
                  /\ usesRepos' = st.m
                  /\ logged' = st.lg
                  /\ idx' = idx + 1
                  /\ pc' = IF st.panic THEN "panic" ELSE pc
                  /\ UNCHANGED todo
    /\ UNCHANGED <<pages, maxRepos, infectedPackages, pageNo, listLog, calls, printed,
                   input, output>>

\* The range loop over the page has ended: break, or ask for the next page.
EndOfPage ==
    /\ pc = "page"
    /\ idx > Len(pages[pageNo])
    /\ IF shouldStopScanning(repoCount) \/ NextPage(pageNo) = 0
       THEN /\ StartAnalysis
            /\ UNCHANGED pageNo
       ELSE /\ pageNo' = NextPage(pageNo)
            /\ pc' = "list"
            /\ UNCHANGED todo
    /\ UNCHANGED <<pages, maxRepos, infectedPackages, usesRepos, repoCount, idx, processed,
                   listLog, logged, calls, printed, input, output>>

(***************************************************************************)
(* Dependency Analyzer.                                                    *)
(***************************************************************************)
\* The result is [found |-> the bool analyzePackageLockFile returns, info |-> *info].
analyzePackageLockFile(lockResp, info, order, registry) ==
    IF lockResp.fetch = "error" THEN [found |-> FALSE, info |-> info]
    ELSE LET npm == [info EXCEPT !.UsesNpm = TRUE]
         IN  IF lockResp.decode = "error" THEN [found |-> TRUE, info |-> npm]
             ELSE IF lockResp.json = "error" THEN [found |-> TRUE, info |-> npm]
             ELSE [found |-> TRUE,
                   info |-> checkPackagesForInfection(lockResp.root, npm, order, registry)]

\* analyzePackageJsonFile without its early return on the fetch error.
analyzePackageJsonFile_NoReturn(pkgResp, info) == [info EXCEPT !.UsesNpm = TRUE]

\* pkgResp is the outcome of the fetch of package.json: "ok" or "error".
analyzePackageJsonFile(pkgResp, info) ==
    IF pkgResp = "error" THEN info ELSE [info EXCEPT !.UsesNpm = TRUE]

analyzeActionDependencies(lockResp, pkgResp, info, order, registry) ==
    LET lock == analyzePackageLockFile(lockResp, info, order, registry)
    IN  IF lock.found THEN lock.info
        ELSE analyzePackageJsonFile(pkgResp, lock.info)

\* Whether the loop body of analyzeActions skips the entry (both `continue`s).
SkipsEntry(actionUse, info) ==
    LET ref == parseActionReference(actionUse)
    IN  info.Analyzed \/ ref.owner = <<>> \/ ref.repo = <<>>

\* The loop body with info.Analyzed = true moved before the two `continue`s.
analyzeEntry_MarksSkipped(actionUse, info, lockResp, pkgResp, order, registry) ==
    IF SkipsEntry(actionUse, info) THEN [info EXCEPT !.Analyzed = TRUE]
    ELSE [analyzeActionDependencies(lockResp, pkgResp, info, order, registry)
            EXCEPT !.Analyzed = TRUE]

\* The loop body of analyzeActions for one entry: the entry afterwards.
analyzeEntry(actionUse, info, lockResp, pkgResp, order, registry) ==
    IF SkipsEntry(actionUse, info) THEN info
    ELSE [analyzeActionDependencies(lockResp, pkgResp, info, order, registry)
            EXCEPT !.Analyzed = TRUE]

LockFileName == "package-lock.json"
PackageFileName == "package.json"

Call(actionUse, ref, path, answer) ==
    [use |-> actionUse, owner |-> ref.owner, repo |-> ref.repo, path |-> path,
     answer |-> answer]

\* The GetContents calls the loop body makes for one entry.
FetchesOf(actionUse, info, lockResp, pkgResp) ==
    LET ref == parseActionReference(actionUse)
    IN  IF SkipsEntry(actionUse, info) THEN {}
        ELSE {Call(actionUse, ref, LockFileName, lockResp.fetch)}
             \cup (IF lockResp.fetch = "error"
                   THEN {Call(actionUse, ref, PackageFileName, pkgResp)}
                   ELSE {})

PipelineAnswers == ActionAnswers(PipelineLocks)

\* One iteration of the range loop of analyzeActions.
AnalyzeAction ==
    /\ pc = "analyze"
    /\ \E actionUse \in todo, ans \in PipelineAnswers :
         /\ usesRepos' = [usesRepos EXCEPT ![actionUse] =
                analyzeEntry(actionUse, @, ans.lock, ans.pkg, ans.order, infectedPackages)]
         /\ calls' = calls \cup FetchesOf(actionUse, usesRepos[actionUse], ans.lock, ans.pkg)
         /\ todo' = todo \ {actionUse}
    /\ UNCHANGED <<pc, pages, maxRepos, infectedPackages, repoCount, pageNo, idx, processed,
                   listLog, logged, printed, input, output>>

\* analyzeActions returns and main calls printResults.
AnalyzeDone ==
    /\ pc = "analyze"
    /\ todo = {}
    /\ pc' = "report"
    /\ UNCHANGED <<pages, maxRepos, infectedPackages, usesRepos, repoCount, pageNo, idx,
                   processed, listLog, logged, calls, todo, printed, input, output>>

(***************************************************************************)
(* Reporter.                                                               *)
(***************************************************************************)
\* What printResults writes for one entry; the package list only when infected.
ReportOf(use, info) ==
    [use |-> use, UsesNpm |-> info.UsesNpm, IsInfected |-> info.IsInfected,
     InfectedPackages |-> IF info.IsInfected THEN info.InfectedPackages ELSE <<>>,
     Repos |-> info.Repos]

PrintResults ==
    /\ pc = "report"
    /\ printed' = {ReportOf(use, usesRepos[use]) : use \in DOMAIN usesRepos}
    /\ pc' = "done"
    /\ UNCHANGED <<pages, maxRepos, infectedPackages, usesRepos, repoCount, pageNo, idx,
                   processed, listLog, logged, calls, todo, input, output>>

Next ==
    \/ ListRepos
    \/ ListReposFails
    \/ ScanRepo
    \/ EndOfPage
    \/ AnalyzeAction
    \/ AnalyzeDone
    \/ PrintResults

Spec == Init /\ [][Next]_vars

(***************************************************************************)
(* Properties of the pipeline (Spec).                                      *)
(***************************************************************************)
AfterAnalysis == pc \in {"report", "done"}

\* The entries the range loop of analyzeActions has visited.
Visited(k) == k \in DOMAIN usesRepos /\ k \notin todo /\ pc \in {"analyze", "report", "done"}

\* The reference up to its first "@", and its first two "/"-separated segments.
BeforeAt(k) == LET i == Index(k, At) IN IF i = 0 THEN k ELSE SubSeq(k, 1, i - 1)
FirstSegment(b) == LET i == Index(b, Slash) IN IF i = 0 THEN b ELSE SubSeq(b, 1, i - 1)
AfterFirstSlash(b) == LET i == Index(b, Slash) IN SubSeq(b, i + 1, Len(b))
SecondSegment(b) == FirstSegment(AfterFirstSlash(b))
WellFormedRef(k) ==
    /\ Contains(BeforeAt(k), Slash)
    /\ FirstSegment(BeforeAt(k)) # <<>>
    /\ SecondSegment(BeforeAt(k)) # <<>>

CallsFor(k, path) == {c \in calls : c.use = k /\ c.path = path}

TotalRepos == Len(Flatten(pages))
ProcessedNames == [i \in DOMAIN processed |-> processed[i].repo]
ExpectedProcessed ==
    SubSeq(Flatten(pages), 1, IF maxRepos > 0 THEN Min(maxRepos, TotalRepos) ELSE TotalRepos)

\* C1: in every state of the pipeline, every entry of the usage mapping has
\* IsInfected true if and only if its InfectedPackages is non-empty.
C1_InfectedIffPackages ==
    \A k \in DOMAIN usesRepos :
        usesRepos[k].IsInfected <=> usesRepos[k].InfectedPackages # <<>>

C1_Witness ==
    /\ pc = "done"
    /\ \E k \in DOMAIN usesRepos :
         usesRepos[k].IsInfected /\ Len(usesRepos[k].InfectedPackages) = 2
    /\ \E k \in DOMAIN usesRepos :
         usesRepos[k].Analyzed /\ ~usesRepos[k].IsInfected /\ usesRepos[k].UsesNpm

\* C4: an analysed entry whose package-lock.json fetch failed has UsesNpm true
\* if and only if its package.json fetch succeeded, and is never marked infected.
C4_FallbackPath ==
    \A k \in DOMAIN usesRepos :
        (Visited(k) /\ \E c \in CallsFor(k, LockFileName) : c.answer = "error") =>
            /\ usesRepos[k].UsesNpm <=>
                   \E c \in CallsFor(k, PackageFileName) : c.answer = "ok"
            /\ CallsFor(k, PackageFileName) # {}
            /\ ~usesRepos[k].IsInfected
            /\ usesRepos[k].InfectedPackages = <<>>

C4_Witness ==
    /\ pc = "done"
    /\ \E k \in DOMAIN usesRepos :
         /\ \E c \in CallsFor(k, LockFileName) : c.answer = "error"
         /\ \E c \in CallsFor(k, PackageFileName) : c.answer = "ok"
         /\ usesRepos[k].UsesNpm
    /\ \E k \in DOMAIN usesRepos :
         /\ \E c \in CallsFor(k, LockFileName) : c.answer = "error"
         /\ \E c \in CallsFor(k, PackageFileName) : c.answer = "error"
         /\ ~usesRepos[k].UsesNpm

\* C5 as claimed: after analyzeActions returns every entry has Analyzed = true,
\* the entries with a malformed reference included.
C5_AllAnalyzed ==
    AfterAnalysis => \A k \in DOMAIN usesRepos : usesRepos[k].Analyzed

\* C5 as amended: after analyzeActions returns an entry has Analyzed = true if
\* and only if its reference has a non-empty owner and repository segment; the
\* entries skipped for a malformed reference keep Analyzed = false.
C5_AnalyzedIffWellFormed ==
    AfterAnalysis =>
        \A k \in DOMAIN usesRepos : usesRepos[k].Analyzed <=> WellFormedRef(k)

C5_Witness ==
    /\ AfterAnalysis
    /\ \E k \in DOMAIN usesRepos : ~WellFormedRef(k) /\ ~usesRepos[k].Analyzed
    /\ \E k \in DOMAIN usesRepos : WellFormedRef(k) /\ usesRepos[k].Analyzed

\* C6: when the listing of a repository's workflow directory fails, the error
\* is logged for that repository unless the response is "not found".
C6_OnlyNotFoundIsSilent ==
    \A i \in DOMAIN processed :
        processed[i].err # "none" =>
            (<<"dir", processed[i].repo>> \in logged
                <=> ~(processed[i].err = "ErrorResponse" /\ processed[i].status = 404))

\* C7: with the cap enabled at most maxRepos repositories are processed and no
\* listing page is requested once the cap is reached; when scanning has ended
\* the repositories processed are the first maxRepos of the organisation in
\* listing order (all of them when the cap is disabled or not reached).
C7_RepositoryCap ==
    /\ maxRepos > 0 =>
         /\ Len(processed) <= maxRepos
         /\ \A i \in DOMAIN listLog : listLog[i] < maxRepos
    /\ pc \in {"analyze", "report", "done"} => ProcessedNames = ExpectedProcessed

C7_Witness ==
    /\ pc = "analyze"
    /\ maxRepos > 0
    /\ Len(processed) = maxRepos
    /\ maxRepos < TotalRepos
    /\ idx <= Len(pages[pageNo])
    /\ idx > 1

C7_WitnessNoCap ==
    /\ pc = "analyze"
    /\ maxRepos = 0
    /\ Len(pages) > 1
    /\ Len(processed) = NumRepos

\* When main has reached the end: every repository within the cap was
\* processed, every entry was visited by the analyzer and reported.
Completed ==
    /\ ProcessedNames = ExpectedProcessed
    /\ todo = {}
    /\ \A k \in DOMAIN usesRepos : \E r \in printed : r.use = k
    /\ \A k \in DOMAIN usesRepos : WellFormedRef(k) => usesRepos[k].Analyzed

\* A repository whose directory listing failed contributes to no entry.
FailedUnitsContributeNothing ==
    \A i \in DOMAIN processed :
        processed[i].err # "none" =>
            \A k \in DOMAIN usesRepos : processed[i].repo \notin usesRepos[k].Repos

\* What is left to do, compared lexicographically: the phase of main, the
\* pages not yet listed, whether the current page is still to be listed, the
\* repositories left on it, the entries left to analyse.
Phase == CASE pc \in {"list", "page"} -> 3
           [] pc = "analyze" -> 2
           [] pc = "report" -> 1
           [] OTHER -> 0

Progress ==
    <<Phase,
      Len(pages) - pageNo,
      IF pc = "list" THEN 1 ELSE 0,
      IF pc = "page" THEN Len(pages[pageNo]) + 1 - idx ELSE 0,
      Cardinality(todo)>>

RECURSIVE LexLess(_, _)
LexLess(a, b) ==
    /\ a # <<>>
    /\ \/ Head(a) < Head(b)
       \/ Head(a) = Head(b) /\ LexLess(Tail(a), Tail(b))

\* main stands at a statement it can execute: a listing call, an iteration or
\* the end of the loop over a page, an iteration or the end of the loop of
\* analyzeActions, or the call of printResults.
HasNextStep ==
    \/ pc = "list" /\ pageNo \in DOMAIN pages
    \/ pc = "page" /\ pageNo \in DOMAIN pages /\ idx \in 1..(Len(pages[pageNo]) + 1)
    \/ pc = "analyze" /\ todo \subseteq DOMAIN usesRepos
    \/ pc = "report"

Idle ==
    /\ pages = <<<<>>>>
    /\ maxRepos = 0
    /\ repoCount = 0
    /\ pageNo = 1
    /\ idx = 1
    /\ processed = <<>>
    /\ listLog = <<>>
    /\ logged = {}
    /\ calls = {}
    /\ todo = {}
    /\ printed = {}

UsedBy(repos) == [NewActionInfo EXCEPT !.Repos = repos]

(***************************************************************************)
(* SpecWorkflow: extractActionsFromWorkflow on workflow documents of every *)
(* shape, up to MaxSteps steps in each of up to two jobs.                  *)
(***************************************************************************)
SeqsUpTo(S, n) == UNION {[1..k -> S] : k \in 0..n}

StepValues == {Uses(RefPlain), Uses(RefNoSlash), Map("uses" :> Other), RunStep, Other}
StepsValues == {List(st) : st \in SeqsUpTo(StepValues, MaxSteps)} \cup {Other}
JobValues == {Map("steps" :> sv) : sv \in StepsValues} \cup {Map("name" :> Other), Other}
JobIds == {"build", "test"}
JobsValues ==
    {Map(f) : f \in UNION {[ids -> JobValues] : ids \in SUBSET JobIds}}
    \cup {Other, List(<<>>)}
WorkflowDocs == {YamlError, DocNoJobs} \cup {Workflow(jv) : jv \in JobsValues}

\* The usage mapping before the call.
PreMaps ==
    { EmptyMap,
      RefPlain :> UsedBy({Repo(1)}),
      RefSubPath :> UsedBy({Repo(2)}) @@ RefNoSlash :> UsedBy({Repo(1), Repo(2)}) }

InitWorkflow ==
    /\ pc = "call"
    /\ Idle
    /\ infectedPackages = {}
    /\ usesRepos \in PreMaps
    /\ input \in {[workflowContent |-> d, repoName |-> r, before |-> usesRepos] :
                     d \in WorkflowDocs, r \in {Repo(1), Repo(2)}}
    /\ output = "none"

CallExtractActions ==
    /\ pc = "call"
    /\ LET r == extractActionsFromWorkflow(input.workflowContent, input.repoName, usesRepos)
       IN  /\ usesRepos' = r[1]
           /\ output' = r[2]
    /\ pc' = "return"
    /\ UNCHANGED <<pages, maxRepos, infectedPackages, repoCount, pageNo, idx, processed,
                   listLog, logged, calls, todo, printed, input>>

NextWorkflow == CallExtractActions

SpecWorkflow == InitWorkflow /\ [][NextWorkflow]_vars

\* The strings U for which the document has a step jobs.<id>.steps[i] with uses: U.
UsesIn(doc) ==
    IF doc.yaml # "ok" \/ "jobs" \notin DOMAIN doc.root THEN {}
    ELSE LET jobs == doc.root["jobs"]
         IN  IF jobs.t # "map" THEN {}
             ELSE {u \in {RefPlain, RefSubPath, RefNoSlash} :
                     \E id \in DOMAIN jobs.m :
                        /\ jobs.m[id].t = "map"
                        /\ "steps" \in DOMAIN jobs.m[id].m
                        /\ jobs.m[id].m["steps"].t = "seq"
                        /\ \E i \in DOMAIN jobs.m[id].m["steps"].s :
                             LET step == jobs.m[id].m["steps"].s[i]
                             IN  /\ step.t = "map"
                                 /\ "uses" \in DOMAIN step.m
                                 /\ step.m["uses"] = Str(u)}

\* C2: after extractActionsFromWorkflow on a document for repository R, every
\* string U that is the `uses` of a step in jobs.<id>.steps is a key of the usage
\* mapping with R in its repository set, and every entry and repository
\* membership from before the call is still there.
C2_UsesAreRecorded ==
    pc = "return" =>
        /\ \A u \in UsesIn(input.workflowContent) :
              /\ u \in DOMAIN usesRepos
              /\ input.repoName \in usesRepos[u].Repos
        /\ \A k \in DOMAIN input.before :
              /\ k \in DOMAIN usesRepos
              /\ input.before[k].Repos \subseteq usesRepos[k].Repos

C2_Witness ==
    /\ pc = "return"
    /\ UsesIn(input.workflowContent) = {RefPlain, RefNoSlash}
    /\ input.before # EmptyMap
    /\ RefPlain \in DOMAIN input.before
    /\ input.repoName \notin input.before[RefPlain].Repos
    /\ usesRepos[RefPlain].Repos = {Repo(1), Repo(2)}
    /\ \E id \in JobIds :
         /\ id \in DOMAIN input.workflowContent.root["jobs"].m
         /\ input.workflowContent.root["jobs"].m[id] = Job(<<Other, Uses(RefNoSlash)>>)

(***************************************************************************)
(* SpecName: extractPackageName on the paths made of up to MaxPieces       *)
(* pieces.                                                                 *)
(***************************************************************************)
Pieces ==
    {NodeModulesPrefix, NodeModulesSep, <<"a">>, <<"b">>, <<"@", "s", "/", "p">>, Slash, At}

RECURSIVE Concat(_)
Concat(ps) == IF ps = <<>> THEN <<>> ELSE Head(ps) \o Concat(Tail(ps))

NamePaths == {Concat(ps) : ps \in SeqsUpTo(Pieces, MaxPieces)}

InitName ==
    /\ pc = "call"
    /\ Idle
    /\ infectedPackages = {}
    /\ usesRepos = EmptyMap
    /\ input \in NamePaths
    /\ output = "none"

CallExtractPackageName ==
    /\ pc = "call"
    /\ output' = extractPackageName(input)
    /\ pc' = "return"
    /\ UNCHANGED <<pages, maxRepos, infectedPackages, usesRepos, repoCount, pageNo, idx,
                   processed, listLog, logged, calls, todo, printed, input>>

NextName == CallExtractPackageName

SpecName == InitName /\ [][NextName]_vars

\* The positions at which sep occurs in s.
Occurrences(s, sep) ==
    {i \in 1..(Len(s) - Len(sep) + 1) : SubSeq(s, i, i + Len(sep) - 1) = sep}

Max(S) == CHOOSE x \in S : \A y \in S : y <= x

\* The occurrences of sep a scan from the left takes as separators: the first
\* occurrence, then the first one that starts after the end of the one before.
RECURSIVE Separators(_, _, _)
Separators(s, sep, from) ==
    LET next == {i \in Occurrences(s, sep) : i >= from}
    IN  IF next = {} THEN {}
        ELSE LET i == CHOOSE x \in next : \A y \in next : x <= y
             IN  {i} \cup Separators(s, sep, i + Len(sep))

\* The path without one leading node_modules/.
Stripped(path) ==
    LET n == Len(NodeModulesPrefix)
    IN  IF Len(path) >= n /\ SubSeq(path, 1, n) = NodeModulesPrefix
        THEN SubSeq(path, n + 1, Len(path))
        ELSE path

IsScopedName(rest) ==
    /\ rest # <<>>
    /\ rest[1] = "@"
    /\ \E i \in DOMAIN rest : rest[i] = "/"
    /\ Occurrences(rest, NodeModulesSep) = {}

\* The name the description gives for a path, the "last separator" being the
\* separator at position `last`.
DescribedName(path, last) ==
    LET rest == Stripped(path)
    IN  IF IsScopedName(rest) THEN rest
        ELSE IF Occurrences(rest, NodeModulesSep) # {}
             THEN SubSeq(rest, last + Len(NodeModulesSep), Len(rest))
             ELSE rest

\* C10 as claimed: the name is the scoped remainder verbatim, else the substring
\* after the last occurrence of /node_modules/, else the remainder.
C10_AfterLastOccurrence ==
    pc = "return" =>
        output = DescribedName(input, Max(Occurrences(Stripped(input), NodeModulesSep) \cup {0}))

\* C10 as amended: the same, the separators being the occurrences of
\* /node_modules/ that strings.Split cuts at (found from the left, without
\* overlap); the name is the substring after the last of these. Where no two
\* occurrences overlap, that is the substring after the last occurrence.
C10_AfterLastSeparator ==
    pc = "return" =>
        LET rest == Stripped(input)
            seps == Separators(rest, NodeModulesSep, 1)
        IN  /\ output = DescribedName(input, Max(seps \cup {0}))
            /\ seps = Occurrences(rest, NodeModulesSep) =>
                   output = DescribedName(input, Max(Occurrences(rest, NodeModulesSep) \cup {0}))
            /\ input = NodeModulesPrefix \o <<"@", "s", "/", "p">> =>
                   output = <<"@", "s", "/", "p">>
            /\ input = NodeModulesPrefix \o <<"a">> \o NodeModulesSep \o <<"b">> =>
                   output = <<"b">>
            /\ input = NodeModulesPrefix \o <<"a">> => output = <<"a">>
            /\ input = NodeModulesPrefix \o <<"a">> \o NodeModulesSep \o <<"@", "s", "/", "p">> =>
                   output = <<"@", "s", "/", "p">>

C10_Witness ==
    /\ pc = "return"
    /\ input = NodeModulesPrefix \o <<"a">> \o NodeModulesSep \o <<"@", "s", "/", "p">>
    /\ output = <<"@", "s", "/", "p">>

\* A path in which two occurrences of /node_modules/ overlap.
C10_WitnessOverlap ==
    /\ pc = "return"
    /\ input = <<"a">> \o NodeModulesSep \o NodeModulesPrefix \o <<"b">>
    /\ output = NodeModulesPrefix \o <<"b">>

(***************************************************************************)
(* SpecLock: the loop body of analyzeActions on one entry, with lockfiles  *)
(* of up to MaxPkgs paths and every registry over three packages.          *)
(***************************************************************************)
PkgA2 == <<"a", "@", "2">>
PkgScoped1 == <<"@", "s", "/", "a", "@", "1">>
RegistryUniverse == {PkgA1, PkgA2, PkgScoped1}

PathCA == NodeModulesPrefix \o <<"c">> \o NodeModulesSep \o <<"a">>
PathScoped == NodeModulesPrefix \o <<"@", "s", "/", "a">>
LockPaths == {<<>>, <<"a">>, PathA, PathCA, PathScoped}
PkgInfos ==
    {Version(<<"1">>), Version(<<"2">>), Map("version" :> Other), Map("dev" :> Other), Other}

RichLocks ==
    {"name" :> Str(<<"x">>), "packages" :> Other}
    \cup {"packages" :> Map(f) :
            f \in UNION {[ps -> PkgInfos] :
                            ps \in {x \in SUBSET LockPaths : Cardinality(x) <= MaxPkgs}}}

InitLock ==
    /\ pc = "call"
    /\ Idle
    /\ infectedPackages \in SUBSET RegistryUniverse
    /\ usesRepos = RefPlain :> UsedBy({Repo(1)})
    /\ input \in {[lock |-> l, pkg |-> IF l.fetch = "error" THEN "error" ELSE "unasked"] :
                     l \in LockAnswers(RichLocks)}
    /\ output = "none"

\* The loop body of analyzeActions for the entry; output is the order in which
\* the range loop of checkPackagesForInfection visited the paths.
CallAnalyzeEntry ==
    /\ pc = "call"
    /\ \E order \in AnswerOrders(input.lock) :
         /\ usesRepos' = [usesRepos EXCEPT ![RefPlain] =
                analyzeEntry(RefPlain, @, input.lock, input.pkg, order, infectedPackages)]
         /\ output' = order
    /\ calls' = FetchesOf(RefPlain, usesRepos[RefPlain], input.lock, input.pkg)
    /\ pc' = "return"
    /\ UNCHANGED <<pages, maxRepos, infectedPackages, repoCount, pageNo, idx, processed,
                   listLog, logged, todo, printed, input>>

NextLock == CallAnalyzeEntry

SpecLock == InitLock /\ [][NextLock]_vars

LockParsed(ans) == ans.fetch = "ok" /\ ans.decode = "ok" /\ ans.json = "ok"

\* The paths of the lockfile's top-level `packages` mapping other than the root
\* path whose value is a mapping with a string `version`.
VersionedPaths(lockJSON) ==
    IF "packages" \notin DOMAIN lockJSON \/ lockJSON["packages"].t # "map" THEN {}
    ELSE LET packages == lockJSON["packages"].m
         IN  {p \in DOMAIN packages :
                 /\ p # <<>>
                 /\ packages[p].t = "map"
                 /\ "version" \in DOMAIN packages[p].m
                 /\ packages[p].m["version"].t = "string"}

NameAtVersion(lockJSON, p) ==
    extractPackageName(p) \o <<"@">> \o lockJSON["packages"].m[p].m["version"].v

\* The paths whose name@version is, character for character, a registry entry.
MatchingPaths(lockJSON) ==
    {p \in VersionedPaths(lockJSON) : NameAtVersion(lockJSON, p) \in infectedPackages}

Elements(seq) == {seq[i] : i \in DOMAIN seq}

\* C3: when package-lock.json is fetched and parses, InfectedPackages holds
\* exactly the strings name@version of the non-root paths with a string
\* version that equal a registry entry, once for each such path; a package in
\* the registry at another version only is not among them.
C3_ExactMatches ==
    (pc = "return" /\ LockParsed(input.lock)) =>
        LET found == usesRepos[RefPlain].InfectedPackages
        IN  /\ Elements(found) =
                  {NameAtVersion(input.lock.root, p) : p \in MatchingPaths(input.lock.root)}
            /\ Len(found) = Cardinality(MatchingPaths(input.lock.root))
            /\ Elements(found) \subseteq infectedPackages
            /\ usesRepos[RefPlain].UsesNpm

\* The registry holds a@1 only; the lockfile has a at version 2 and, nested
\* under c, a at version 1.
C3_Witness ==
    /\ pc = "return"
    /\ LockParsed(input.lock)
    /\ infectedPackages = {PkgA1}
    /\ input.lock.root =
          ("packages" :> Map((PathA :> Version(<<"2">>)) @@ (PathCA :> Version(<<"1">>))))
    /\ usesRepos[RefPlain].InfectedPackages = <<PkgA1>>

\* Two paths of the same package at the same version: both matches are kept.
C3_WitnessBoth ==
    /\ pc = "return"
    /\ LockParsed(input.lock)
    /\ usesRepos[RefPlain].InfectedPackages = <<PkgA1, PkgA1>>

(***************************************************************************)
(* SpecAnalyze: analyzeActions and printResults on the mapping left by a   *)
(* scan of one repository whose workflows use up to MaxRefs references.    *)
(***************************************************************************)
RefNoOwner == <<"/", "b", "@", "1">>
RefNoRepo == <<"a", "/", "@", "1">>
RefEmpty == <<>>
RefSlashAfterAt == <<"a", "@", "1", "/", "b">>
RefNoAt == <<"a", "/", "b">>
RefTwoAts == <<"c", "/", "d", "/", "e", "/", "f", "@", "1", "@", "2">>

AnalyzeRefs ==
    {RefPlain, RefSubPath, RefNoSlash, RefNoOwner, RefNoRepo, RefEmpty, RefSlashAfterAt,
     RefNoAt, RefTwoAts}

InitAnalyze ==
    /\ pc = "analyze"
    /\ pages = <<<<Repo(1)>>>>
    /\ maxRepos = 0
    /\ infectedPackages \in PipelineRegistries
    /\ \E refs \in {x \in SUBSET AnalyzeRefs : Cardinality(x) <= MaxRefs} :
         /\ usesRepos = [k \in refs |-> UsedBy({Repo(1)})]
         /\ todo = refs
    /\ repoCount = 1
    /\ pageNo = 1
    /\ idx = 2
    /\ processed = <<Processed(Repo(1), [err |-> "none"])>>
    /\ listLog = <<0>>
    /\ logged = {}
    /\ calls = {}
    /\ printed = {}
    /\ input = "none"
    /\ output = "none"

NextAnalyze ==
    \/ AnalyzeAction
    \/ AnalyzeDone
    \/ PrintResults

SpecAnalyze == InitAnalyze /\ [][NextAnalyze]_vars

CallsOf(k) == {c \in calls : c.use = k}

\* Everything after the first "/" of the reference's part before "@".
RestAfterSlash(k) == AfterFirstSlash(BeforeAt(k))

Untouched(k) ==
    /\ CallsOf(k) = {}
    /\ ~usesRepos[k].UsesNpm
    /\ ~usesRepos[k].IsInfected

\* C9 as claimed: the part of the reference before "@" is split at its first
\* "/" into the owner and the repository name (everything after that slash);
\* a reference without a "/" there is skipped with no fetch.
C9_SplitAtFirstSlash ==
    \A k \in DOMAIN usesRepos :
        Visited(k) =>
            IF Contains(BeforeAt(k), Slash)
            THEN \A c \in CallsOf(k) :
                    c.owner = FirstSegment(BeforeAt(k)) /\ c.repo = RestAfterSlash(k)
            ELSE Untouched(k)

\* C9 as amended: the part of the reference before the first "@" is split at
\* every "/"; the owner is the first segment and the repository name the
\* second segment only. An entry whose reference has no "/" there, or an empty
\* first or second segment, is skipped with no fetch and keeps UsesNpm and
\* IsInfected false; every other entry is fetched from owner/repository.
C9_OwnerAndSecondSegment ==
    \A k \in DOMAIN usesRepos :
        Visited(k) =>
            IF WellFormedRef(k)
            THEN /\ CallsFor(k, LockFileName) # {}
                 /\ \A c \in CallsOf(k) :
                       /\ c.owner = FirstSegment(BeforeAt(k))
                       /\ c.repo = SecondSegment(BeforeAt(k))
            ELSE Untouched(k)

C9_Witness ==
    /\ pc = "done"
    /\ DOMAIN usesRepos = {RefSubPath, RefNoRepo}
    /\ \E c \in CallsOf(RefSubPath) : c.owner = <<"a">> /\ c.repo = <<"b">>
    /\ usesRepos[RefSubPath].UsesNpm
    /\ Untouched(RefNoRepo)

====
